---- MODULE Spec2Model ----
(***************************************************************************)
(* Physics lists of EMCal_exercise: MyQGSP_BERT, TherapyPhysics, EMPhysics *)
(* and the libphyslist scripting binding.                                  *)
(*                                                                         *)
(* A list object is modelled by the framework attributes it inherits (the  *)
(* physics vector, the physics constructors it points to, the verbose      *)
(* level, the cut state), by the members its own class declares (`own`),   *)
(* and by `log`, the sequence of calls its code has issued so far.  The    *)
(* toolkit itself is outside the repository: each toolkit call is modelled *)
(* at its call site by the argument it receives and by its documented      *)
(* effect on the attribute it owns, and what a parent constructor          *)
(* registers is a nondeterministic input (nBase opaque constructors).      *)
(* Energies are integers in keV, so that 0.5*MeV is representable.         *)
(***************************************************************************)
EXTENDS Integers, Sequences, FiniteSets, TLC

VARIABLES objs, registry

vars == <<objs, registry>>

----------------------------------------------------------------------------
(* Bounds *)

MaxVerb == 1
MaxBase == 1
MaxSetCuts == 2

Verbosities == (0 - MaxVerb)..MaxVerb
Slots == {"a", "b"}

----------------------------------------------------------------------------
(* Units (G4SystemOfUnits.hh), scaled to integer keV *)

keV == 1
MeV == 1000 * keV
GeV == 1000 * MeV

----------------------------------------------------------------------------
(* Class declarations *)

Classes == {"MyQGSP_BERT", "TherapyPhysics", "EMPhysics"}

DirectBase(cls) ==
    CASE cls = "MyQGSP_BERT"    -> "QGSP_BERT"
      [] cls = "TherapyPhysics" -> "QGSP_BIC"
      [] cls = "EMPhysics"      -> "G4VModularPhysicsList"

DeclaresSetCuts_TherapyDropped(cls) == cls \in {"MyQGSP_BERT"}

\* the classes whose declaration holds `virtual void SetCuts();`
DeclaresSetCuts(cls) == cls \in {"MyQGSP_BERT", "TherapyPhysics"}

\* default argument of the three constructors (G4int verbose = 1)
DefaultVerbose == 1

\* data members declared by the class itself: none in any of the three
OwnMembers(cls) == <<>>

----------------------------------------------------------------------------
(* Toolkit calls, as seen from their call sites *)

NoObj == [live |-> FALSE]

Ev(op, kind, id, hasArg, arg) ==
    [op |-> op, kind |-> kind, id |-> id, hasArg |-> hasArg, arg |-> arg]

Emit(o, e) == [o EXCEPT !.log = Append(@, e)]

G4cout(o, msg) == Emit(o, Ev("G4cout", msg, 0, FALSE, 0))

\* `new K(ver)`: a fresh physics constructor, not yet registered
NewPhysics(o, kind, ver) ==
    Emit([o EXCEPT !.heap = Append(@, [kind |-> kind, hasVer |-> TRUE, ver |-> ver,
                                       hasLimit |-> FALSE, limit |-> 0])],
         Ev("new", kind, Len(o.heap) + 1, TRUE, ver))

LastNew(o) == Len(o.heap)

SetKineticEnergyLimit(o, id, val) ==
    Emit([o EXCEPT !.heap[id].hasLimit = TRUE, !.heap[id].limit = val],
         Ev("SetKineticEnergyLimit", o.heap[id].kind, id, TRUE, val))

RegisterPhysics(o, id) ==
    Emit([o EXCEPT !.physicsVector = Append(@, id)],
         Ev("RegisterPhysics", o.heap[id].kind, id, FALSE, 0))

SetVerboseLevel(o, v) ==
    Emit([o EXCEPT !.hasVerboseLevel = TRUE, !.verboseLevel = v],
         Ev("SetVerboseLevel", "", 0, TRUE, v))

\* the base-class constructor: it leaves nBase constructors of its own in the
\* physics vector; hasArg tells whether a verbosity was passed to it
BaseCtor(base, hasArg, verbose, nBase) ==
    [live |-> TRUE, cls |-> "", given |-> 0,
     heap |-> [i \in 1..nBase |-> [kind |-> "BaseSupplied", hasVer |-> FALSE, ver |-> 0,
                                   hasLimit |-> FALSE, limit |-> 0]],
     physicsVector |-> [i \in 1..nBase |-> i],
     hasVerboseLevel |-> FALSE, verboseLevel |-> 0,
     cutsSet |-> FALSE,
     own |-> <<>>,
     log |-> <<Ev("BaseCtor", base, 0, hasArg, IF hasArg THEN verbose ELSE 0)>>]

\* the base-class SetCuts: it touches the cut state only
BaseSetCuts(o, base) ==
    Emit([o EXCEPT !.cutsSet = TRUE], Ev("BaseSetCuts", base, 0, FALSE, 0))

----------------------------------------------------------------------------
(* TherapyPhysics *)

TherapyPhysics_ctor_Branching(verbose, nBase) ==
    LET o0 == BaseCtor("QGSP_BIC", TRUE, verbose, nBase)
        o1 == G4cout(o0, "Adding step limiter physics to the list")
        o2 == NewPhysics(o1, "G4StepLimiterPhysics", verbose)
    IN  IF verbose < 0 THEN o1 ELSE RegisterPhysics(o2, LastNew(o2))

TherapyPhysics_ctor(verbose, nBase) ==
    LET o0 == BaseCtor("QGSP_BIC", TRUE, verbose, nBase)
        o1 == G4cout(o0, "Adding step limiter physics to the list")
        o2 == NewPhysics(o1, "G4StepLimiterPhysics", verbose)
    IN  RegisterPhysics(o2, LastNew(o2))

TherapyPhysics_SetCuts_Twice(o) ==
    BaseSetCuts(BaseSetCuts(o, "QGSP_BIC"), "QGSP_BIC")

TherapyPhysics_SetCuts(o) == BaseSetCuts(o, "QGSP_BIC")

----------------------------------------------------------------------------
(* MyQGSP_BERT *)

MyQGSP_BERT_ctor_RegisterFirst(verbose, nBase) ==
    LET o0 == BaseCtor("QGSP_BERT", TRUE, verbose, nBase)
        o1 == NewPhysics(o0, "G4NeutronTrackingCut", verbose)
        neuCut == LastNew(o1)
        o2 == RegisterPhysics(o1, neuCut)
        o3 == SetKineticEnergyLimit(o2, neuCut, (5 * MeV) \div 10)
        o4 == G4cout(o3, "Changing the neutron cuts of the physicslist")
        o5 == NewPhysics(o4, "G4StepLimiterPhysics", verbose)
        o6 == RegisterPhysics(o5, LastNew(o5))
    IN  G4cout(o6, "Adding step limiter physics to the Geant4 simulation engine")

MyQGSP_BERT_ctor_DefaultVerbose(verbose, nBase) ==
    LET o0 == BaseCtor("QGSP_BERT", TRUE, verbose, nBase)
        o1 == NewPhysics(o0, "G4NeutronTrackingCut", verbose)
        neuCut == LastNew(o1)
        o2 == SetKineticEnergyLimit(o1, neuCut, (5 * MeV) \div 10)
        o3 == RegisterPhysics(o2, neuCut)
        o4 == G4cout(o3, "Changing the neutron cuts of the physicslist")
        o5 == NewPhysics(o4, "G4StepLimiterPhysics", DefaultVerbose)
        o6 == RegisterPhysics(o5, LastNew(o5))
    IN  G4cout(o6, "Adding step limiter physics to the Geant4 simulation engine")

MyQGSP_BERT_ctor(verbose, nBase) ==
    LET o0 == BaseCtor("QGSP_BERT", TRUE, verbose, nBase)
        o1 == NewPhysics(o0, "G4NeutronTrackingCut", verbose)
        neuCut == LastNew(o1)
        \* neuCut->SetKineticEnergyLimit(0.5*MeV)
        o2 == SetKineticEnergyLimit(o1, neuCut, (5 * MeV) \div 10)
        o3 == RegisterPhysics(o2, neuCut)
        o4 == G4cout(o3, "Changing the neutron cuts of the physicslist")
        o5 == NewPhysics(o4, "G4StepLimiterPhysics", verbose)
        o6 == RegisterPhysics(o5, LastNew(o5))
    IN  G4cout(o6, "Adding step limiter physics to the Geant4 simulation engine")

MyQGSP_BERT_SetCuts_Reregister(o) ==
    LET o1 == BaseSetCuts(o, "QGSP_BERT")
        o2 == NewPhysics(o1, "G4StepLimiterPhysics", DefaultVerbose)
    IN  RegisterPhysics(o2, LastNew(o2))

MyQGSP_BERT_SetCuts(o) == BaseSetCuts(o, "QGSP_BERT")

----------------------------------------------------------------------------
(* EMPhysics *)

EMPhysics_ctor_TwoLists(ver, nBase) ==
    LET o0 == BaseCtor("G4VModularPhysicsList", FALSE, 0, nBase)
        o1 == G4cout(o0, "Geant4 Physics List simulation engine: EMPhysics")
        o2 == G4cout(o1, "")
        o3 == SetVerboseLevel(o2, ver)
        o4 == NewPhysics(o3, "G4EmStandardPhysics", ver)
        o5 == RegisterPhysics(o4, LastNew(o4))
        o6 == NewPhysics(o5, "G4StepLimiterPhysics", ver)
    IN  RegisterPhysics(o6, LastNew(o6))

EMPhysics_ctor(ver, nBase) ==
    LET o0 == BaseCtor("G4VModularPhysicsList", FALSE, 0, nBase)
        o1 == G4cout(o0, "Geant4 Physics List simulation engine: EMPhysics")
        o2 == G4cout(o1, "")
        o3 == SetVerboseLevel(o2, ver)
        o4 == NewPhysics(o3, "G4EmStandardPhysics", ver)
    IN  RegisterPhysics(o4, LastNew(o4))

----------------------------------------------------------------------------
(* Construction and virtual dispatch *)

Ctor(cls, verbose, nBase) ==
    CASE cls = "MyQGSP_BERT"    -> MyQGSP_BERT_ctor(verbose, nBase)
      [] cls = "TherapyPhysics" -> TherapyPhysics_ctor(verbose, nBase)
      [] cls = "EMPhysics"      -> EMPhysics_ctor(verbose, nBase)

\* the complete object: base part, then the class's own members
NewObject(cls, verbose, nBase) ==
    [Ctor(cls, verbose, nBase) EXCEPT !.cls = cls, !.given = verbose,
                                      !.own = OwnMembers(cls)]

\* o->SetCuts() through the virtual table: the class's override when it
\* declares one, the inherited implementation otherwise
CallSetCuts(o) ==
    IF DeclaresSetCuts(o.cls)
    THEN LET e == Emit(o, Ev("Override", o.cls, 0, FALSE, 0))
         IN  CASE o.cls = "MyQGSP_BERT"    -> MyQGSP_BERT_SetCuts(e)
               [] o.cls = "TherapyPhysics" -> TherapyPhysics_SetCuts(e)
    ELSE BaseSetCuts(o, DirectBase(o.cls))

----------------------------------------------------------------------------
(* The scripting binding *)

libphyslist_WrongBase ==
    << [name |-> "MyQGSP_BERT", cls |-> "MyQGSP_BERT", base |-> "QGSP_BERT"],
       [name |-> "TherapyPhysics", cls |-> "TherapyPhysics", base |-> "QGSP_BERT"],
       [name |-> "EMPhysics", cls |-> "EMPhysics", base |-> "G4VModularPhysicsList"] >>

libphyslist ==
    << [name |-> "MyQGSP_BERT", cls |-> "MyQGSP_BERT", base |-> "QGSP_BERT"],
       [name |-> "TherapyPhysics", cls |-> "TherapyPhysics", base |-> "QGSP_BIC"],
       [name |-> "EMPhysics", cls |-> "EMPhysics", base |-> "G4VModularPhysicsList"] >>

----------------------------------------------------------------------------
(* Log helpers *)

SetCutsOps == {"Override", "BaseSetCuts"}

Count(s, P(_)) == Cardinality({i \in DOMAIN s : P(s[i])})

BaseSetCutsCalls(o) == Count(o.log, LAMBDA e : e.op = "BaseSetCuts")

----------------------------------------------------------------------------
(* Actions *)

Init ==
    /\ objs = [s \in Slots |-> NoObj]
    /\ registry = <<>>

\* import of the binding module: the body of BOOST_PYTHON_MODULE runs once
ImportModule ==
    /\ registry = <<>>
    /\ registry' = libphyslist
    /\ UNCHANGED objs

\* C++ code constructs a list with an explicit verbosity
Construct(s, cls, verbose, nBase) ==
    /\ ~objs[s].live
    /\ objs' = [objs EXCEPT ![s] = NewObject(cls, verbose, nBase)]
    /\ UNCHANGED registry

\* the verbosity is left out and the declared default is used
ConstructDefault(s, cls, nBase) ==
    /\ ~objs[s].live
    /\ objs' = [objs EXCEPT ![s] = NewObject(cls, DefaultVerbose, nBase)]
    /\ UNCHANGED registry

SetCuts(s) ==
    /\ objs[s].live
    /\ BaseSetCutsCalls(objs[s]) < MaxSetCuts
    /\ objs' = [objs EXCEPT ![s] = CallSetCuts(objs[s])]
    /\ UNCHANGED registry

\* the destructors are empty
Destroy(s) ==
    /\ objs[s].live
    /\ objs' = [objs EXCEPT ![s] = NoObj]
    /\ UNCHANGED registry

Next ==
    \/ ImportModule
    \/ \E s \in Slots, cls \in Classes, v \in Verbosities, n \in 0..MaxBase :
          Construct(s, cls, v, n)
    \/ \E s \in Slots, cls \in Classes, n \in 0..MaxBase : ConstructDefault(s, cls, n)
    \/ \E s \in Slots : SetCuts(s)
    \/ \E s \in Slots : Destroy(s)

Spec == Init /\ [][Next]_vars

----------------------------------------------------------------------------
(* Observations on an object *)

Live == {s \in Slots : objs[s].live}

LiveOf(cls) == {s \in Live : objs[s].cls = cls}

\* the framework attributes of a list
Fw(o) == [heap |-> o.heap, physicsVector |-> o.physicsVector,
          hasVerboseLevel |-> o.hasVerboseLevel, verboseLevel |-> o.verboseLevel,
          cutsSet |-> o.cutsSet]

NBase(o) == Cardinality({i \in DOMAIN o.heap : o.heap[i].kind = "BaseSupplied"})

Idx(o, P(_)) == {i \in DOMAIN o.log : P(o.log[i])}

IsRegister(e) == e.op = "RegisterPhysics"

RegCalls(o) == SelectSeq(o.log, IsRegister)

KindsOf(seq) == [i \in DOMAIN seq |-> seq[i].kind]

IsCtorEvent(e) == e.op \notin SetCutsOps

CtorLog(o) == SelectSeq(o.log, IsCtorEvent)

VerbosityOps == {"BaseCtor", "new", "SetVerboseLevel"}

\* an event with the forwarded verbosity left out
Blank(e) == IF e.op \in VerbosityOps THEN [op |-> e.op, kind |-> e.kind, arg |-> 0]
            ELSE [op |-> e.op, kind |-> e.kind, arg |-> e.arg]

Shape(seq) == [i \in DOMAIN seq |-> Blank(seq[i])]

ExpectedRegistrations(cls) ==
    CASE cls = "MyQGSP_BERT"    -> <<"G4NeutronTrackingCut", "G4StepLimiterPhysics">>
      [] cls = "TherapyPhysics" -> <<"G4StepLimiterPhysics">>
      [] cls = "EMPhysics"      -> <<"G4EmStandardPhysics">>

----------------------------------------------------------------------------
(* Claims *)

\* C1: every list object has issued exactly the registration calls fixed for
\* its class (EMPhysics: one, the electromagnetic standard physics;
\* TherapyPhysics: one, the step limiter; MyQGSP_BERT: two, the neutron
\* tracking cut and then the step limiter), on top of what the base
\* constructor left in the physics vector, and no later call adds another.
C1_FixedRegistrations ==
    \A s \in Live :
        LET o == objs[s] IN
        /\ KindsOf(RegCalls(o)) = ExpectedRegistrations(o.cls)
        /\ Len(o.physicsVector) = NBase(o) + Len(ExpectedRegistrations(o.cls))

C1_Witness ==
    /\ objs["a"].live /\ objs["a"].cls = "MyQGSP_BERT"
    /\ NBase(objs["a"]) > 0 /\ BaseSetCutsCalls(objs["a"]) > 0
    /\ objs["b"].live /\ objs["b"].cls = "EMPhysics"
    /\ registry # <<>>

\* C2: a SetCuts step on a TherapyPhysics or MyQGSP_BERT object calls the
\* base implementation exactly once and does nothing else: the framework
\* attributes after the step are those the base SetCuts alone produces, and
\* the physics vector is the one before the step.
C2_SetCutsIsBaseSetCuts ==
    [][\A s \in Slots :
          (objs[s].live /\ objs'[s].live /\ objs'[s] # objs[s]
              /\ objs[s].cls \in {"TherapyPhysics", "MyQGSP_BERT"})
          => /\ BaseSetCutsCalls(objs'[s]) = BaseSetCutsCalls(objs[s]) + 1
             /\ Fw(objs'[s]) = Fw(BaseSetCuts(objs[s], DirectBase(objs[s].cls)))
             /\ objs'[s].physicsVector = objs[s].physicsVector
             /\ objs'[s].log[Len(objs'[s].log)].kind = DirectBase(objs[s].cls)]_vars

C2_Witness ==
    /\ objs["a"].live /\ objs["a"].cls = "TherapyPhysics"
    /\ BaseSetCutsCalls(objs["a"]) = 2
    /\ objs["b"].live /\ objs["b"].cls = "MyQGSP_BERT"
    /\ BaseSetCutsCalls(objs["b"]) = 1

\* C3 as stated: on every one of the three classes a SetCuts call enters the
\* class's own override, which then calls the base implementation.
C3_AllThreeOverride ==
    \A s \in Live :
        LET o == objs[s] IN
        \A i \in Idx(o, LAMBDA e : e.op = "BaseSetCuts") :
            /\ o.log[i - 1].op = "Override"
            /\ o.log[i - 1].kind = o.cls

\* C3 amended: MyQGSP_BERT and TherapyPhysics override SetCuts and the
\* override calls the base implementation; EMPhysics declares no override,
\* so a SetCuts call on it runs the inherited implementation directly.
C3_TwoOverrideOneInherits ==
    \A s \in Live :
        LET o == objs[s] IN
        /\ o.cls \in {"MyQGSP_BERT", "TherapyPhysics"} =>
              /\ \A i \in Idx(o, LAMBDA e : e.op = "BaseSetCuts") :
                    /\ o.log[i - 1].op = "Override"
                    /\ o.log[i - 1].kind = o.cls
                    /\ o.log[i].kind = DirectBase(o.cls)
              /\ \A i \in Idx(o, LAMBDA e : e.op = "Override") :
                    i < Len(o.log) /\ o.log[i + 1].op = "BaseSetCuts"
        /\ o.cls = "EMPhysics" =>
              /\ Idx(o, LAMBDA e : e.op = "Override") = {}
              /\ \A i \in Idx(o, LAMBDA e : e.op = "BaseSetCuts") :
                    o.log[i].kind = "G4VModularPhysicsList"

C3_Witness ==
    /\ objs["a"].live /\ objs["a"].cls = "EMPhysics"
    /\ BaseSetCutsCalls(objs["a"]) > 0
    /\ objs["b"].live /\ objs["b"].cls = "TherapyPhysics"
    /\ BaseSetCutsCalls(objs["b"]) > 0

\* C4: the neutron tracking cut registered by MyQGSP_BERT carries a
\* kinetic-energy limit of 0.5 GeV, whatever the verbosity.
C4_NeutronLimitHalfGeV ==
    \A s \in LiveOf("MyQGSP_BERT") :
        LET o == objs[s] IN
        \A i \in DOMAIN o.physicsVector :
            LET c == o.heap[o.physicsVector[i]] IN
            c.kind = "G4NeutronTrackingCut" =>
                c.hasLimit /\ c.limit = (5 * GeV) \div 10

\* C5: once imported, the binding module exposes exactly three class names,
\* all distinct, each bound to the class of that name and declared over the
\* direct base of that class.
C5_BindingMatchesClasses ==
    registry # <<>> =>
        /\ Len(registry) = 3
        /\ {registry[i].name : i \in DOMAIN registry} = Classes
        /\ \A i, j \in DOMAIN registry : registry[i].name = registry[j].name => i = j
        /\ \A i \in DOMAIN registry :
              /\ registry[i].cls = registry[i].name
              /\ registry[i].base = DirectBase(registry[i].cls)

C5_Witness == registry # <<>> /\ Live # {}

\* C6: in a MyQGSP_BERT object's call log the base constructor comes first,
\* then the kinetic-energy limit is set on the neutron tracking cut, then
\* that object is registered, then the step limiter is registered; the limit
\* is set once, during construction, before any SetCuts call.
C6_ConstructorOrder ==
    \A s \in LiveOf("MyQGSP_BERT") :
        LET o == objs[s]
            setLim == Idx(o, LAMBDA e : e.op = "SetKineticEnergyLimit")
            regNeu == Idx(o, LAMBDA e : IsRegister(e) /\ e.kind = "G4NeutronTrackingCut")
            regLim == Idx(o, LAMBDA e : IsRegister(e) /\ e.kind = "G4StepLimiterPhysics")
            cuts   == Idx(o, LAMBDA e : e.op \in SetCutsOps)
        IN  /\ o.log[1].op = "BaseCtor"
            /\ Idx(o, LAMBDA e : e.op = "BaseCtor") = {1}
            /\ Cardinality(setLim) = 1 /\ Cardinality(regNeu) = 1
            /\ Cardinality(regLim) = 1
            /\ \A i \in setLim, j \in regNeu :
                  i < j /\ o.log[i].id = o.log[j].id
            /\ \A j \in regNeu, k \in regLim : j < k
            /\ \A i \in setLim \cup regNeu \cup regLim, c \in cuts : i < c

C6_Witness ==
    \E s \in LiveOf("MyQGSP_BERT") : BaseSetCutsCalls(objs[s]) = 2

\* C7: construction never fails and never branches: in a free slot every
\* class can be constructed with every verbosity, and two objects of the same
\* class have issued the same construction calls, of the same kinds and in
\* the same order, differing at most in the forwarded verbosity.
C7_NoBranching ==
    /\ \A s \in Slots \ Live : \A cls \in Classes, v \in Verbosities :
          ENABLED Construct(s, cls, v, 0)
    /\ \A s, t \in Live :
          objs[s].cls = objs[t].cls =>
              Shape(CtorLog(objs[s])) = Shape(CtorLog(objs[t]))

C7_Witness ==
    /\ objs["a"].live /\ objs["b"].live
    /\ objs["a"].cls = "TherapyPhysics" /\ objs["b"].cls = "TherapyPhysics"
    /\ objs["a"].given < 0 /\ objs["b"].given > 0

\* C8: the verbosity given to the constructor is the one every call receives:
\* TherapyPhysics and MyQGSP_BERT pass it to the base constructor, every
\* physics constructor created gets it, and EMPhysics sets it as the verbose
\* level before it registers anything.
C8_VerbosityForwarded ==
    \A s \in Live :
        LET o == objs[s] IN
        /\ \A i \in DOMAIN o.log :
              (o.log[i].op \in VerbosityOps /\ o.log[i].hasArg) => o.log[i].arg = o.given
        /\ \A i \in DOMAIN o.heap : o.heap[i].hasVer => o.heap[i].ver = o.given
        /\ \A i \in Idx(o, LAMBDA e : e.op = "new") : o.log[i].hasArg
        /\ o.cls \in {"TherapyPhysics", "MyQGSP_BERT"} => o.log[1].hasArg
        /\ o.cls = "EMPhysics" =>
              /\ o.hasVerboseLevel /\ o.verboseLevel = o.given
              /\ \A i \in Idx(o, LAMBDA e : e.op = "SetVerboseLevel"),
                    j \in Idx(o, IsRegister) : i < j

C8_Witness ==
    /\ objs["a"].live /\ objs["a"].cls = "MyQGSP_BERT" /\ objs["a"].given < 0
    /\ objs["b"].live /\ objs["b"].cls = "EMPhysics" /\ objs["b"].given = 0

\* C9: a list object has no member of its own, and whatever SetCuts calls
\* were made on a TherapyPhysics or MyQGSP_BERT object, its physics vector
\* and the physics constructors it points to (the neutron kinetic-energy
\* limit included) are those the constructor left.
C9_NoOwnState ==
    \A s \in Live :
        LET o == objs[s]
            fresh == NewObject(o.cls, o.given, NBase(o))
        IN  /\ o.own = <<>>
            /\ o.cls \in {"TherapyPhysics", "MyQGSP_BERT"} =>
                  /\ o.physicsVector = fresh.physicsVector
                  /\ o.heap = fresh.heap
                  /\ CtorLog(o) = fresh.log

C9_Witness ==
    /\ objs["a"].live /\ objs["a"].cls = "MyQGSP_BERT"
    /\ BaseSetCutsCalls(objs["a"]) = 2
    /\ objs["b"].live /\ objs["b"].cls = "TherapyPhysics"
    /\ BaseSetCutsCalls(objs["b"]) = 2

====
